---- MODULE Spec2Model ----
(***************************************************************************)
(* Rendering of ALTER TABLE clause fragments (table_command.go).           *)
(*                                                                         *)
(* A Go string is modelled as a sequence of one-character strings, so that *)
(* concatenation, strings.Join and substring tests are computed character  *)
(* by character.  The empty string "" is the empty sequence << >>.  The    *)
(* backquote character is written "BQ", <BQ> in comments.                  *)
(***************************************************************************)
EXTENDS Integers, Sequences, FiniteSets, TLC

(***************************************************************************)
(* Bounds of the model.                                                    *)
(***************************************************************************)
\* longest command list rendered by TableCommands.toSQL
MaxCmds == 2
\* longest column list of an AddIndexCommand / AddUniqueIndexCommand
MaxCols == 2

(***************************************************************************)
(* String literals of the source.                                          *)
(***************************************************************************)
\* ", "  (table_command.go:19)
SEP ==
    <<",", " ">>

\* "<BQ>, <BQ>"  (table_command.go:135)
COLSEP ==
    <<"BQ", ",", " ", "BQ">>

\* "ADD COLUMN <BQ>"  (table_command.go:40)
S_ADD_COLUMN ==
    <<"A", "D", "D", " ", "C", "O", "L", "U", "M", "N", " ", "BQ">>

\* "<BQ> "  (table_command.go:40)
S_BT_SP ==
    <<"BQ", " ">>

\* " AFTER "  (table_command.go:43)
S_AFTER ==
    <<" ", "A", "F", "T", "E", "R", " ">>

\* " FIRST"  (table_command.go:45)
S_FIRST ==
    <<" ", "F", "I", "R", "S", "T">>

\* "RENAME COLUMN <BQ>"  (table_command.go:65)
S_RENAME_COLUMN ==
    <<"R", "E", "N", "A", "M", "E", " ", "C", "O", "L", "U", "M", "N", " ", "BQ">>

\* "<BQ> TO <BQ>"  (table_command.go:65)
S_BT_TO_BT ==
    <<"BQ", " ", "T", "O", " ", "BQ">>

\* "BQ"  (table_command.go:65)
S_BT ==
    <<"BQ">>

\* "MODIFY <BQ>"  (table_command.go:87)
S_MODIFY ==
    <<"M", "O", "D", "I", "F", "Y", " ", "BQ">>

\* "CHANGE <BQ>"  (table_command.go:108)
S_CHANGE ==
    <<"C", "H", "A", "N", "G", "E", " ", "BQ">>

\* "<BQ> <BQ>"  (table_command.go:108)
S_BT_SP_BT ==
    <<"BQ", " ", "BQ">>

\* "DROP COLUMN <BQ>"  (table_command.go:121)
S_DROP_COLUMN ==
    <<"D", "R", "O", "P", " ", "C", "O", "L", "U", "M", "N", " ", "BQ">>

\* "ADD KEY <BQ>"  (table_command.go:135)
S_ADD_KEY ==
    <<"A", "D", "D", " ", "K", "E", "Y", " ", "BQ">>

\* "<BQ> (<BQ>"  (table_command.go:135)
S_BT_SP_PAREN_BT ==
    <<"BQ", " ", "(", "BQ">>

\* "<BQ>)"  (table_command.go:135)
S_BT_PAREN ==
    <<"BQ", ")">>

\* "DROP KEY <BQ>"  (table_command.go:146)
S_DROP_KEY ==
    <<"D", "R", "O", "P", " ", "K", "E", "Y", " ", "BQ">>

\* "ADD "  (table_command.go:159)
S_ADD ==
    <<"A", "D", "D", " ">>

\* "DROP FOREIGN KEY <BQ>"  (table_command.go:170)
S_DROP_FOREIGN_KEY ==
    <<"D", "R", "O", "P", " ", "F", "O", "R", "E", "I", "G", "N", " ", "K", "E", "Y", " ", "BQ">>

\* "ADD UNIQUE KEY <BQ>"  (table_command.go:184)
S_ADD_UNIQUE_KEY ==
    <<"A", "D", "D", " ", "U", "N", "I", "Q", "U", "E", " ", "K", "E", "Y", " ", "BQ">>

\* "ADD PRIMARY KEY (<BQ>"  (table_command.go:195)
S_ADD_PRIMARY_KEY ==
    <<"A", "D", "D", " ", "P", "R", "I", "M", "A", "R", "Y", " ", "K", "E", "Y", " ", "(", "BQ">>

\* "DROP PRIMARY KEY"  (table_command.go:202)
S_DROP_PRIMARY_KEY ==
    <<"D", "R", "O", "P", " ", "P", "R", "I", "M", "A", "R", "Y", " ", "K", "E", "Y">>

(***************************************************************************)
(* strings.Join(elems, sep): the elements separated by sep; "" for no      *)
(* element, the element itself for one.                                    *)
(***************************************************************************)
RECURSIVE JoinFrom(_, _, _)
JoinFrom(elems, sep, k) ==
    IF k > Len(elems) THEN << >>
    ELSE sep \o elems[k] \o JoinFrom(elems, sep, k + 1)

\* a Join whose empty case is wrong: it returns the separator
JoinSepOnEmpty(elems, sep) ==
    IF Len(elems) = 0 THEN sep
    ELSE elems[1] \o JoinFrom(elems, sep, 2)

Join(elems, sep) ==
    IF Len(elems) = 0 THEN << >>
    ELSE elems[1] \o JoinFrom(elems, sep, 2)

(***************************************************************************)
(* The collaborators.  columnType is an interface value: nil, or a value   *)
(* whose buildRow() returns a string.  Foreign is a descriptor whose       *)
(* render() returns a string.  Both are opaque capabilities: a value is    *)
(* described by the strings its successive invocations return during one   *)
(* render of the command that holds it (rows[k] is what the k-th call      *)
(* returns).  A pure capability returns the same string on every call.     *)
(***************************************************************************)
\* most invocations of a capability during one render of a command
MaxCalls == 2

NilColumn == [isNil |-> TRUE, rows |-> << >>]

ColumnOf(rows) == [isNil |-> FALSE, rows |-> rows]

buildRow(col, k) == col.rows[k]

ForeignOf(rows) == [rows |-> rows]

render(f, k) == f.rows[k]

(***************************************************************************)
(* The command variants and their toSQL methods.                           *)
(***************************************************************************)
\* the nil value of the command interface
NilCommand == [kind |-> "nil"]

\* AddColumnCommand.toSQL testing First before After
AddColumnCommand_toSQL_FirstWins(c) ==
    IF c.Column.isNil THEN << >>
    ELSE LET definition == buildRow(c.Column, 1) IN
         IF c.Name = << >> \/ definition = << >> THEN << >>
         ELSE LET sql == S_ADD_COLUMN \o c.Name \o S_BT_SP \o definition IN
              IF c.First THEN sql \o S_FIRST
              ELSE IF c.After # << >> THEN sql \o S_AFTER \o c.After
              ELSE sql

AddColumnCommand_toSQL(c) ==
    IF c.Column.isNil THEN << >>
    ELSE LET definition == buildRow(c.Column, 1) IN
         IF c.Name = << >> \/ definition = << >> THEN << >>
         ELSE LET sql == S_ADD_COLUMN \o c.Name \o S_BT_SP \o definition IN
              IF c.After # << >> THEN sql \o S_AFTER \o c.After
              ELSE IF c.First THEN sql \o S_FIRST
              ELSE sql

RenameColumnCommand_toSQL(c) ==
    IF c.Old = << >> \/ c.New = << >> THEN << >>
    ELSE S_RENAME_COLUMN \o c.Old \o S_BT_TO_BT \o c.New \o S_BT

ModifyColumnCommand_toSQL(c) ==
    IF c.Column.isNil THEN << >>
    ELSE LET definition == buildRow(c.Column, 1) IN
         IF c.Name = << >> \/ definition = << >> THEN << >>
         ELSE S_MODIFY \o c.Name \o S_BT_SP \o definition

\* the definition is checked on the first buildRow() and emitted from a second
ChangeColumnCommand_toSQL(c) ==
    IF c.Column.isNil THEN << >>
    ELSE LET definition == buildRow(c.Column, 1) IN
         IF c.From = << >> \/ c.To = << >> \/ definition = << >> THEN << >>
         ELSE S_CHANGE \o c.From \o S_BT_SP_BT \o c.To \o S_BT_SP
                       \o buildRow(c.Column, 2)

DropColumnCommand_toSQL(c) ==
    IF c.Name = << >> THEN << >>
    ELSE S_DROP_COLUMN \o c.Name \o S_BT

\* AddIndexCommand.toSQL joining the columns with ", " instead of "<BQ>, <BQ>"
AddIndexCommand_toSQL_PlainSep(c) ==
    IF c.Name = << >> \/ Len(c.Columns) = 0 THEN << >>
    ELSE S_ADD_KEY \o c.Name \o S_BT_SP_PAREN_BT
                   \o Join(c.Columns, SEP) \o S_BT_PAREN

AddIndexCommand_toSQL(c) ==
    IF c.Name = << >> \/ Len(c.Columns) = 0 THEN << >>
    ELSE S_ADD_KEY \o c.Name \o S_BT_SP_PAREN_BT
                   \o Join(c.Columns, COLSEP) \o S_BT_PAREN

\* DropIndexCommand.toSQL without the guard on the empty name
DropIndexCommand_toSQL_NoGuard(c) ==
    S_DROP_KEY \o c.Name \o S_BT

DropIndexCommand_toSQL(c) ==
    IF c.Name = << >> THEN << >>
    ELSE S_DROP_KEY \o c.Name \o S_BT

\* render() is called once for the check and once more for the output
AddForeignCommand_toSQL(c) ==
    IF render(c.Foreign, 1) = << >> THEN << >>
    ELSE S_ADD \o render(c.Foreign, 2)

DropForeignCommand_toSQL(c) ==
    IF c.Name = << >> THEN << >>
    ELSE S_DROP_FOREIGN_KEY \o c.Name \o S_BT

AddUniqueIndexCommand_toSQL(c) ==
    IF c.Key = << >> \/ Len(c.Columns) = 0 THEN << >>
    ELSE S_ADD_UNIQUE_KEY \o c.Key \o S_BT_SP_PAREN_BT
                          \o Join(c.Columns, COLSEP) \o S_BT_PAREN

AddPrimaryIndexCommand_toSQL(c) ==
    IF c.Name = << >> THEN << >>
    ELSE S_ADD_PRIMARY_KEY \o c.Name \o S_BT_PAREN

DropPrimaryIndexCommand_toSQL(c) == S_DROP_PRIMARY_KEY

\* c.toSQL() on a non-nil value of the command interface: dynamic dispatch
command_toSQL(c) ==
    CASE c.kind = "AddColumn"        -> AddColumnCommand_toSQL(c)
      [] c.kind = "RenameColumn"     -> RenameColumnCommand_toSQL(c)
      [] c.kind = "ModifyColumn"     -> ModifyColumnCommand_toSQL(c)
      [] c.kind = "ChangeColumn"     -> ChangeColumnCommand_toSQL(c)
      [] c.kind = "DropColumn"       -> DropColumnCommand_toSQL(c)
      [] c.kind = "AddIndex"         -> AddIndexCommand_toSQL(c)
      [] c.kind = "DropIndex"        -> DropIndexCommand_toSQL(c)
      [] c.kind = "AddForeign"       -> AddForeignCommand_toSQL(c)
      [] c.kind = "DropForeign"      -> DropForeignCommand_toSQL(c)
      [] c.kind = "AddUniqueIndex"   -> AddUniqueIndexCommand_toSQL(c)
      [] c.kind = "AddPrimaryIndex"  -> AddPrimaryIndexCommand_toSQL(c)
      [] c.kind = "DropPrimaryIndex" -> DropPrimaryIndexCommand_toSQL(c)

(***************************************************************************)
(* The values a caller can build.                                          *)
(***************************************************************************)
\* identifiers: the empty string and two plain names
Names == {<< >>, <<"a">>, <<"i", "d">>}

\* what a capability can return: nothing, or one of two definitions
Definitions == {<< >>, <<"I", "N", "T">>, <<"T", "E", "X", "T">>}

\* all sequences over S of length 0..n
SeqsUpTo(S, n) == UNION {[1..k -> S] : k \in 0..n}

\* the strings of MaxCalls successive invocations, pure or not
CallRows(S) == [1..MaxCalls -> S]

\* the strings of MaxCalls invocations of a pure capability returning d
Pure(d) == [k \in 1..MaxCalls |-> d]

Columns == {NilColumn} \cup {ColumnOf(r) : r \in CallRows(Definitions)}

Foreigns == {ForeignOf(r) : r \in CallRows({<< >>, <<"F", "K">>})}

ColumnLists == SeqsUpTo({<<"a">>, <<"b">>}, MaxCols)

\* every command built from the given field values, and the nil command
CommandsOver(names, columns, afters, firsts, lists, foreigns) ==
    [kind : {"AddColumn"}, Name : names, Column : columns,
        After : afters, First : firsts]
    \cup [kind : {"RenameColumn"}, Old : names, New : names]
    \cup [kind : {"ModifyColumn"}, Name : names, Column : columns]
    \cup [kind : {"ChangeColumn"}, From : names, To : names, Column : columns]
    \cup [kind : {"DropColumn"}, Name : names]
    \cup [kind : {"AddIndex"}, Name : names, Columns : lists]
    \cup [kind : {"DropIndex"}, Name : names]
    \cup [kind : {"AddForeign"}, Foreign : foreigns]
    \cup [kind : {"DropForeign"}, Name : names]
    \cup [kind : {"AddUniqueIndex"}, Key : names, Columns : lists]
    \cup [kind : {"AddPrimaryIndex"}, Name : names]
    \cup [kind : {"DropPrimaryIndex"}]
    \cup {NilCommand}

\* the commands rendered one at a time
AllCommands ==
    CommandsOver(Names, Columns, Names, BOOLEAN, ColumnLists, Foreigns)

\* the commands that command lists are built from
ListCommands ==
    CommandsOver({<< >>, <<"a">>},
                 {NilColumn, ColumnOf(Pure(<<"I", "N", "T">>))},
                 {<< >>}, {FALSE},
                 {<< >>, << <<"a">> >>},
                 {ForeignOf(Pure(<< >>)), ForeignOf(Pure(<<"F", "K">>))})

\* the command lists handed to TableCommands.toSQL
CommandLists ==
    SeqsUpTo(ListCommands, MaxCmds) \cup {<<c>> : c \in AllCommands}

(***************************************************************************)
(* TableCommands.toSQL as a state machine.                                 *)
(***************************************************************************)
VARIABLES
    tc,      \* the receiver: the command list
    pc,      \* "start", "loop", "done" (returned) or "panic"
    i,       \* position of the range loop in tc
    rows,    \* the local slice of fragments
    result   \* the returned string, once pc = "done"

vars == <<tc, pc, i, rows, result>>

Init ==
    /\ tc \in CommandLists
    /\ pc = "start"
    /\ i = 1
    /\ rows = << >>
    /\ result = << >>

\* rows := []string{}
Begin ==
    /\ pc = "start"
    /\ pc' = "loop"
    /\ rows' = << >>
    /\ UNCHANGED <<tc, i, result>>

\* a loop body that puts the fragment in front of the earlier ones
LoopPrepend ==
    /\ pc = "loop"
    /\ i <= Len(tc)
    /\ tc[i] # NilCommand
    /\ rows' = <<command_toSQL(tc[i])>> \o rows
    /\ i' = i + 1
    /\ UNCHANGED <<tc, pc, result>>

\* rows = append(rows, c.toSQL()) for the next command of the list
Loop ==
    /\ pc = "loop"
    /\ i <= Len(tc)
    /\ tc[i] # NilCommand
    /\ rows' = Append(rows, command_toSQL(tc[i]))
    /\ i' = i + 1
    /\ UNCHANGED <<tc, pc, result>>

\* c.toSQL() on a nil interface value: nil pointer dereference, a panic
LoopNil ==
    /\ pc = "loop"
    /\ i <= Len(tc)
    /\ tc[i] = NilCommand
    /\ pc' = "panic"
    /\ UNCHANGED <<tc, i, rows, result>>

\* return strings.Join(rows, ", ")
Return ==
    /\ pc = "loop"
    /\ i > Len(tc)
    /\ result' = Join(rows, SEP)
    /\ pc' = "done"
    /\ UNCHANGED <<tc, i, rows>>

Next == Begin \/ Loop \/ LoopNil \/ Return

Spec == Init /\ [][Next]_vars

(***************************************************************************)
(* Vocabulary of the properties.                                           *)
(***************************************************************************)
NonEmpty(s) == s # << >>

StartsWith(s, p) == Len(p) <= Len(s) /\ SubSeq(s, 1, Len(p)) = p

EndsWith(s, p) ==
    Len(p) <= Len(s) /\ SubSeq(s, Len(s) - Len(p) + 1, Len(s)) = p

Contains(s, p) ==
    \E k \in 1..(Len(s) - Len(p) + 1) : SubSeq(s, k, k + Len(p) - 1) = p

\* the commands rendered so far: rows[j] is the fragment of tc[j]
Rendered == 1..Len(rows)

\* a required field of c is missing, the capability checked on the
\* invocation the command validates
Incomplete(c) ==
    CASE c.kind = "AddColumn" ->
            c.Name = << >> \/ c.Column.isNil \/ buildRow(c.Column, 1) = << >>
      [] c.kind = "RenameColumn" -> c.Old = << >> \/ c.New = << >>
      [] c.kind = "ModifyColumn" ->
            c.Name = << >> \/ c.Column.isNil \/ buildRow(c.Column, 1) = << >>
      [] c.kind = "ChangeColumn" ->
            \/ c.From = << >> \/ c.To = << >>
            \/ c.Column.isNil \/ buildRow(c.Column, 1) = << >>
      [] c.kind = "DropColumn" -> c.Name = << >>
      [] c.kind = "AddIndex" -> c.Name = << >> \/ c.Columns = << >>
      [] c.kind = "DropIndex" -> c.Name = << >>
      [] c.kind = "AddForeign" -> render(c.Foreign, 1) = << >>
      [] c.kind = "DropForeign" -> c.Name = << >>
      [] c.kind = "AddUniqueIndex" -> c.Key = << >> \/ c.Columns = << >>
      [] c.kind = "AddPrimaryIndex" -> c.Name = << >>
      [] c.kind = "DropPrimaryIndex" -> FALSE

\* an AddColumnCommand with a name and a column that renders a definition
WellFormedAdd(c) ==
    /\ c.kind = "AddColumn"
    /\ c.Name # << >>
    /\ ~c.Column.isNil
    /\ buildRow(c.Column, 1) # << >>

\* "ADD COLUMN <BQ>Name<BQ> <definition>"
AddBase(c) ==
    S_ADD_COLUMN \o c.Name \o <<"BQ", " ">> \o buildRow(c.Column, 1)

\* <BQ>c1<BQ>, <BQ>c2<BQ>, ..., <BQ>cn<BQ> from column k on
RECURSIVE QuotedFrom(_, _)
QuotedFrom(cols, k) ==
    IF k > Len(cols) THEN << >>
    ELSE (IF k = 1 THEN << >> ELSE <<",", " ">>)
         \o <<"BQ">> \o cols[k] \o <<"BQ">> \o QuotedFrom(cols, k + 1)

\* where the j-th segment starts in the joined result, less one
RECURSIVE Offset(_)
Offset(j) == IF j = 1 THEN 0 ELSE Offset(j - 1) + Len(rows[j - 1]) + 2

(***************************************************************************)
(* C1: the result of TableCommands.toSQL is the ", "-join of the non-empty *)
(* fragments only: it never starts or ends with ", " because of a command  *)
(* that rendered empty.                                                    *)
(***************************************************************************)
C1_OnlyNonEmptyJoined ==
    pc = "done" =>
        /\ result = Join(SelectSeq(rows, NonEmpty), SEP)
        /\ ~StartsWith(result, SEP)
        /\ ~EndsWith(result, SEP)

(***************************************************************************)
(* C2: a command renders the empty string if and only if it is incomplete  *)
(* (a required identifier is "", a required column list is empty, the      *)
(* column definition is nil, or the capability renders "" when the command *)
(* checks it); DropPrimaryIndexCommand never renders empty.                *)
(***************************************************************************)
C2_EmptyIffIncomplete ==
    \A j \in Rendered : (rows[j] = << >>) <=> Incomplete(tc[j])

C2_Witness ==
    /\ pc = "done"
    /\ Len(rows) = 2
    /\ Incomplete(tc[1]) /\ rows[1] = << >>
    /\ ~Incomplete(tc[2]) /\ rows[2] # << >>

(***************************************************************************)
(* C3: a well-formed AddColumnCommand with a non-empty After renders       *)
(* "ADD COLUMN <BQ>Name<BQ> <definition> AFTER <BQ>col<BQ>", the           *)
(* after-column in backquotes.                                             *)
(***************************************************************************)
C3_AfterQuoted ==
    \A j \in Rendered :
        (WellFormedAdd(tc[j]) /\ tc[j].After # << >>) =>
            rows[j] = AddBase(tc[j]) \o <<" ", "A", "F", "T", "E", "R", " ">>
                          \o <<"BQ">> \o tc[j].After \o <<"BQ">>

(***************************************************************************)
(* C4: the positional suffix of a well-formed AddColumnCommand is chosen   *)
(* by After first, then First: an AFTER clause naming the after-column and *)
(* no " FIRST" when After is non-empty, whatever First is; " FIRST" when   *)
(* After is empty and First is set; no suffix when neither is set.         *)
(***************************************************************************)
C4_AfterThenFirst ==
    \A j \in Rendered :
        WellFormedAdd(tc[j]) =>
            LET c == tc[j]
                after == AddBase(c) \o <<" ", "A", "F", "T", "E", "R", " ">>
            IN  /\ c.After # << >> =>
                    /\ StartsWith(rows[j], after)
                    /\ Contains(SubSeq(rows[j], Len(after) + 1, Len(rows[j])),
                                c.After)
                    /\ ~Contains(rows[j], <<" ", "F", "I", "R", "S", "T">>)
                /\ (c.After = << >> /\ c.First) =>
                    rows[j] = AddBase(c) \o <<" ", "F", "I", "R", "S", "T">>
                /\ (c.After = << >> /\ ~c.First) =>
                    rows[j] = AddBase(c)

C4_Witness ==
    /\ pc = "done"
    /\ Len(rows) = 1
    /\ WellFormedAdd(tc[1])
    /\ tc[1].After # << >>
    /\ tc[1].First
    /\ rows[1] # << >>

(***************************************************************************)
(* C5: the result holds one segment per command, in the order of the       *)
(* list, each segment exactly what its command renders on its own, with    *)
(* ", " between neighbours; equal commands are each rendered.              *)
(***************************************************************************)
C5_OrderPreserved ==
    pc = "done" =>
        /\ Len(rows) = Len(tc)
        /\ \A j \in 1..Len(tc) :
            /\ rows[j] = command_toSQL(tc[j])
            /\ SubSeq(result, Offset(j) + 1, Offset(j) + Len(rows[j]))
                   = rows[j]
            /\ j > 1 => SubSeq(result, Offset(j) - 1, Offset(j))
                            = <<",", " ">>
        /\ Len(result) =
               IF Len(tc) = 0 THEN 0
               ELSE Offset(Len(tc)) + Len(rows[Len(tc)])

C5_Witness ==
    /\ pc = "done"
    /\ Len(tc) = 2
    /\ rows[1] # << >> /\ rows[2] # << >>
    /\ rows[1] # rows[2]
    /\ result = rows[1] \o <<",", " ">> \o rows[2]

(***************************************************************************)
(* C6: rendering never fails: no command list, a nil entry of the command  *)
(* interface included, makes TableCommands.toSQL panic.                    *)
(***************************************************************************)
C6_NeverPanics == pc # "panic"

(***************************************************************************)
(* C7: the empty command list (and the nil TableCommands value, which has  *)
(* no element either) renders the empty string.                            *)
(***************************************************************************)
C7_EmptyListEmptyString ==
    (pc = "done" /\ Len(tc) = 0) => result = << >>

C7_Witness == pc = "done" /\ Len(tc) = 0 /\ rows = << >> /\ result = << >>

(***************************************************************************)
(* C8: an AddIndexCommand / AddUniqueIndexCommand with a name and columns  *)
(* c1..cn renders "ADD KEY <BQ>name<BQ> (<BQ>c1<BQ>, ..., <BQ>cn<BQ>)",    *)
(* respectively "ADD UNIQUE KEY ...": every column once, in list order,    *)
(* in its own backquotes, ", " between neighbours.                         *)
(***************************************************************************)
C8_IndexColumnsQuoted ==
    \A j \in Rendered :
        LET c == tc[j] IN
        /\ (c.kind = "AddIndex" /\ c.Name # << >> /\ Len(c.Columns) > 0) =>
            rows[j] = <<"A", "D", "D", " ", "K", "E", "Y", " ", "BQ">>
                      \o c.Name \o <<"BQ", " ", "(">>
                      \o QuotedFrom(c.Columns, 1) \o <<")">>
        /\ (c.kind = "AddUniqueIndex" /\ c.Key # << >> /\ Len(c.Columns) > 0) =>
            rows[j] = <<"A", "D", "D", " ", "U", "N", "I", "Q", "U", "E", " ",
                        "K", "E", "Y", " ", "BQ">>
                      \o c.Key \o <<"BQ", " ", "(">>
                      \o QuotedFrom(c.Columns, 1) \o <<")">>

C8_Witness ==
    /\ pc = "done"
    /\ Len(rows) = 1
    /\ tc[1].kind = "AddIndex"
    /\ tc[1].Name # << >>
    /\ Len(tc[1].Columns) >= 2
    /\ tc[1].Columns[1] # tc[1].Columns[2]
    /\ rows[1] # << >>

====
